---- MODULE Spec2Model ----
(***************************************************************************)
(* sys-tui: the render/poll event loop of src/src/main.rs.                 *)
(*                                                                         *)
(* main builds the System handle, acquires the terminal (tui::init), runs  *)
(* App::run and releases the terminal (tui::restore).  App::run draws a    *)
(* frame, draws a second one when a second has elapsed since last_update,  *)
(* then blocks in event::read() for one input event.                       *)
(*                                                                         *)
(* Time is counted in units of sysinfo::MINIMUM_CPU_UPDATE_INTERVAL        *)
(* (200 ms); the timers are saturating, which is exact for the comparisons *)
(* the program makes.                                                      *)
(***************************************************************************)
EXTENDS Integers, Sequences, FiniteSets, TLC

VARIABLES
    pc,                  \* position of main / App::run
    exit,                \* App.exit
    elapsed,             \* last_update.elapsed(), saturating at TickInterval
    sinceRefresh,        \* time since the last CPU refresh, saturating
    refreshGap,          \* time between the last two CPU refreshes, saturating
    refreshes,           \* CPU refreshes made so far, saturating at CountCap
    cpus,                \* self.system.cpus(): the current snapshot
    input,               \* events the terminal holds for event::read()
    frame,               \* what the last render_frame call built and drew
    app_result,          \* the value of App::run
    main_result,         \* the value of main
    restoreCalls,        \* calls of tui::restore
    drawsInIter,         \* terminal.draw calls in the current loop iteration
    refreshesInIter,     \* refresh_cpu_all calls in the current loop iteration
    readsInIter,         \* event::read calls in the current loop iteration
    refreshesSinceReset  \* refresh_cpu_all calls since last_update was set

vars == << pc, exit, elapsed, sinceRefresh, refreshGap, refreshes, cpus, input,
           frame, app_result, main_result, restoreCalls, drawsInIter,
           refreshesInIter, readsInIter, refreshesSinceReset >>

------------------------------------------------------------------------------
(* Bounds of the model *)

MaxCores == 3        \* core counts 1..MaxCores
MaxQueue == 1        \* events the terminal buffers ahead of event::read()
MaxOversleep == 1    \* thread::sleep may return this much late
CountCap == 2        \* saturation of the call counters (0, 1, "2 or more")
MaxLayoutCores == 101    \* core counts 1..MaxLayoutCores of LayoutSpec

(* Program constants, in units of 200 ms *)

TickInterval == 5            \* Duration::from_secs(1)
MinCpuUpdateInterval == 1    \* sysinfo::MINIMUM_CPU_UPDATE_INTERVAL

------------------------------------------------------------------------------
(* Values *)

\* the base utilization a refresh reports (core i shows base + 10 * i)
Loads == {0}
Sizes == { [width |-> 100, height |-> 20], [width |-> 81, height |-> 25] }

\* Event::Key(KeyEvent { code, kind, .. })
Key(kind, code) == [type |-> "Key", kind |-> kind, code |-> code]

KeyEvents == { Key("Press", "q"), Key("Release", "q"), Key("Repeat", "q"),
               Key("Press", "Q") }
OtherEvents == { [type |-> "Resize", kind |-> "None", code |-> "None"],
                 [type |-> "Mouse",  kind |-> "None", code |-> "None"] }
Events == KeyEvents \cup OtherEvents
\* event::read() yields an event or an io::Error
IoError == [type |-> "IoError", kind |-> "None", code |-> "None"]
ReadResults == Events \cup {IoError}

QuitEvent == Key("Press", "q")

NoFrame == [built |-> FALSE]

Sat(x, cap) == IF x > cap THEN cap ELSE x

IsErr(r) == r \in {"InitErr", "DrawErr", "ReadErr", "RestoreErr"}

------------------------------------------------------------------------------
(* The snapshot the system handle holds after a refresh: n cores in a      *)
(* stable order, each with its name and utilization.                       *)

Snapshot(n, load) ==
    [i \in 1..n |-> [name |-> i - 1, usage |-> (load + 10 * i) % 101]]

------------------------------------------------------------------------------
(* render_frame, lines 58-85 *)

\* lines 65-68: one Constraint::Percentage(100 / cpus().len()) per cpu
Cols(system_cpus) ==
    [i \in 1..Len(system_cpus) |-> 100 \div Len(system_cpus)]

RECURSIVE SumTo(_, _)
SumTo(s, k) == IF k = 0 THEN 0 ELSE SumTo(s, k - 1) + s[k]

Sum(s) == SumTo(s, Len(s))

\* Layout::split of `area` along `direction` by percentage constraints: the
\* i-th rectangle starts where the percentages before it end; what the
\* percentages leave over stays unassigned at the end.
Split(area, direction, percents) ==
    LET len == IF direction = "Vertical" THEN area.height ELSE area.width
        from(i) == (SumTo(percents, i - 1) * len) \div 100
        to(i) == (SumTo(percents, i) * len) \div 100
    IN  [i \in 1..Len(percents) |->
            IF direction = "Vertical"
            THEN [x |-> area.x, y |-> area.y + from(i),
                  width |-> area.width, height |-> to(i) - from(i)]
            ELSE [x |-> area.x + from(i), y |-> area.y,
                  width |-> to(i) - from(i), height |-> area.height]]

\* frame.size()
FrameSize(size) == [x |-> 0, y |-> 0, width |-> size.width, height |-> size.height]

\* lines 94-102: the clock paragraph rendered into `area`
RenderClock(area) == [widget |-> "clock", area |-> area]

\* lines 87-92: a bordered block titled with the cpu's name, holding its usage
RenderCpu(cpu, area) ==
    [widget |-> "cpu", area |-> area, title |-> cpu.name, text |-> cpu.usage]

\* lines 82-84: the loop over the cpus that calls render_cpu is commented out
RenderCpus(system_cpus, inner_layout) == << >>

CpusAtLayoutStale(before, after) == before

\* the cpus the layout loop of line 65 reads: those of the refresh of line 63
CpusAtLayout(before, after) == after

\* The frame built by one call: `before` is the system's cpus as the call
\* starts, `after` the cpus once refresh_cpu_all() (line 63) has returned.
RenderFrame(size, before, after) ==
    LET system_cpus == CpusAtLayout(before, after)
        cols == Cols(system_cpus)
        outer_layout == Split(FrameSize(size), "Vertical", << 10, 90 >>)
        inner_layout == Split(FrameSize(size), "Horizontal", cols)
    IN  [built |-> TRUE,
         size |-> size,
         snapshot |-> after,
         cols |-> cols,
         outer_layout |-> outer_layout,
         inner_layout |-> inner_layout,
         widgets |-> << RenderClock(outer_layout[1]) >>
                        \o RenderCpus(system_cpus, inner_layout)]

------------------------------------------------------------------------------
(* handle_events, lines 104-124 *)

\* lines 116-120: the new value of self.exit
HandleKeyEvent(key_event, flag) ==
    IF key_event.code = "q" THEN TRUE ELSE flag

HandleEventSkipKindCheck(ev, flag) ==
    IF ev.type = "Key" THEN HandleKeyEvent(ev, flag) ELSE flag

HandleEventNoQuit(ev, flag) == flag

\* lines 105-112: the match on the event read
HandleEvent(ev, flag) ==
    IF ev.type = "Key" /\ ev.kind = "Press"
    THEN HandleKeyEvent(ev, flag)
    ELSE flag

------------------------------------------------------------------------------
Init ==
    /\ pc = "main"
    /\ exit = FALSE
    /\ elapsed = 0
    /\ sinceRefresh = 0
    /\ refreshGap = 0
    /\ refreshes = 0
    /\ cpus = << >>
    /\ input = << >>
    /\ frame = NoFrame
    /\ app_result = "None"
    /\ main_result = "None"
    /\ restoreCalls = 0
    /\ drawsInIter = 0
    /\ refreshesInIter = 0
    /\ readsInIter = 0
    /\ refreshesSinceReset = 0

MainStartNoRefresh ==
    /\ pc = "main"
    /\ \E host \in {"Some", "None"} :
        pc' = IF host = "Some" THEN "init" ELSE "panic"
    /\ exit' = FALSE
    /\ UNCHANGED << elapsed, sinceRefresh, refreshGap, refreshes, cpus, input,
                    frame, app_result, main_result, restoreCalls, drawsInIter,
                    refreshesInIter, readsInIter, refreshesSinceReset >>

\* lines 132-140: System::new_all(), sys.refresh_all(), the App value.
\* new_all() loads everything, the cpus included, and refresh_all() refreshes
\* everything again at once: two cpu refreshes with no wait between them.
\* host_name() may be None, and expect() then panics.
MainStart ==
    /\ pc = "main"
    /\ \E n \in 1..MaxCores, load \in Loads, host \in {"Some", "None"} :
        /\ cpus' = Snapshot(n, load)
        /\ pc' = IF host = "Some" THEN "init" ELSE "panic"
    /\ refreshes' = Sat(2, CountCap)
    /\ refreshGap' = 0
    /\ sinceRefresh' = 0
    /\ exit' = FALSE
    /\ UNCHANGED << elapsed, input, frame, app_result,
                    main_result, restoreCalls, drawsInIter,
                    refreshesInIter, readsInIter, refreshesSinceReset >>

TuiInitErrorIgnored ==
    /\ pc = "init"
    /\ \E ok \in BOOLEAN :
        IF ok
        THEN /\ pc' = "run"
             /\ UNCHANGED main_result
        ELSE /\ main_result' = "InitErr"
             /\ pc' = "run"
    /\ UNCHANGED << exit, elapsed, sinceRefresh, refreshGap, refreshes, cpus,
                    input, frame, app_result, restoreCalls,
                    drawsInIter, refreshesInIter, readsInIter,
                    refreshesSinceReset >>

\* line 142: tui::init()?
TuiInit ==
    /\ pc = "init"
    /\ \E ok \in BOOLEAN :
        IF ok
        THEN /\ pc' = "run"
             /\ UNCHANGED main_result
        ELSE /\ main_result' = "InitErr"
             /\ pc' = "done"
    /\ UNCHANGED << exit, elapsed, sinceRefresh, refreshGap, refreshes, cpus,
                    input, frame, app_result, restoreCalls,
                    drawsInIter, refreshesInIter, readsInIter,
                    refreshesSinceReset >>

\* line 43: let mut last_update = Instant::now()
RunEnter ==
    /\ pc = "run"
    /\ elapsed' = 0
    /\ refreshesSinceReset' = 0
    /\ pc' = "while"
    /\ UNCHANGED << exit, sinceRefresh, refreshGap, refreshes, cpus, input,
                    frame, app_result, main_result, restoreCalls,
                    drawsInIter, refreshesInIter, readsInIter >>

LoopCheckNoTest ==
    /\ pc = "while"
    /\ pc' = "draw1"
    /\ drawsInIter' = 0
    /\ refreshesInIter' = 0
    /\ readsInIter' = 0
    /\ UNCHANGED << exit, elapsed, sinceRefresh, refreshGap, refreshes, cpus,
                    input, frame, app_result, main_result,
                    restoreCalls, refreshesSinceReset >>

\* lines 45 and 55: while !self.exit { ... } Ok(())
LoopCheck ==
    /\ pc = "while"
    /\ IF exit
       THEN /\ app_result' = "Ok"
            /\ pc' = "restore"
            /\ UNCHANGED << drawsInIter, refreshesInIter, readsInIter >>
       ELSE /\ pc' = "draw1"
            /\ drawsInIter' = 0
            /\ refreshesInIter' = 0
            /\ readsInIter' = 0
            /\ UNCHANGED app_result
    /\ UNCHANGED << exit, elapsed, sinceRefresh, refreshGap, refreshes, cpus,
                    input, frame, main_result, restoreCalls, refreshesSinceReset >>

\* terminal.draw(|frame| self.render_frame(frame))? at lines 46 and 51.
\* draw resizes the buffer to the terminal, calls the closure and flushes;
\* the resize and the flush may fail.  render_frame sleeps (line 61),
\* refreshes the cpus (line 63) and builds the frame.
TerminalDraw(next) ==
    /\ drawsInIter' = drawsInIter + 1
    /\ \E res \in {"Ok", "ResizeErr", "FlushErr"} :
        IF res = "ResizeErr"
        THEN /\ app_result' = "DrawErr"
             /\ pc' = "restore"
             /\ UNCHANGED << elapsed, sinceRefresh, refreshGap, refreshes,
                             cpus, frame, refreshesInIter,
                             refreshesSinceReset >>
        ELSE /\ \E d \in MinCpuUpdateInterval..(MinCpuUpdateInterval + MaxOversleep),
                   n \in 1..MaxCores, load \in Loads, size \in Sizes :
                /\ elapsed' = Sat(elapsed + d, TickInterval)
                /\ refreshGap' = Sat(sinceRefresh + d, MinCpuUpdateInterval)
                /\ cpus' = Snapshot(n, load)
                /\ frame' = [shown |-> (res = "Ok"),
                              refresh |-> Sat(refreshes + 1, CountCap)]
                                @@ RenderFrame(size, cpus, Snapshot(n, load))
             /\ sinceRefresh' = 0
             /\ refreshes' = Sat(refreshes + 1, CountCap)
             /\ refreshesInIter' = refreshesInIter + 1
             /\ refreshesSinceReset' = Sat(refreshesSinceReset + 1, CountCap)
             /\ IF res = "Ok"
                THEN pc' = next /\ UNCHANGED app_result
                ELSE pc' = "restore" /\ app_result' = "DrawErr"
    /\ UNCHANGED << exit, input, main_result, restoreCalls, readsInIter >>

\* line 46
Draw1 == pc = "draw1" /\ TerminalDraw("tick")

TickCheckEager ==
    /\ pc = "tick"
    /\ IF elapsed >= MinCpuUpdateInterval
       THEN /\ elapsed' = 0
            /\ refreshesSinceReset' = 0
            /\ pc' = "draw2"
       ELSE /\ pc' = "events"
            /\ UNCHANGED << elapsed, refreshesSinceReset >>
    /\ UNCHANGED << exit, sinceRefresh, refreshGap, refreshes, cpus, input,
                    frame, app_result, main_result, restoreCalls,
                    drawsInIter, refreshesInIter, readsInIter >>

TickCheckNoRedraw ==
    /\ pc = "tick"
    /\ IF elapsed >= TickInterval
       THEN /\ elapsed' = 0
            /\ refreshesSinceReset' = 0
            /\ pc' = "events"
       ELSE /\ pc' = "events"
            /\ UNCHANGED << elapsed, refreshesSinceReset >>
    /\ UNCHANGED << exit, sinceRefresh, refreshGap, refreshes, cpus, input,
                    frame, app_result, main_result, restoreCalls,
                    drawsInIter, refreshesInIter, readsInIter >>

\* lines 47-48: if last_update.elapsed() >= 1 s { last_update = Instant::now()
TickCheck ==
    /\ pc = "tick"
    /\ IF elapsed >= TickInterval
       THEN /\ elapsed' = 0
            /\ refreshesSinceReset' = 0
            /\ pc' = "draw2"
       ELSE /\ pc' = "events"
            /\ UNCHANGED << elapsed, refreshesSinceReset >>
    /\ UNCHANGED << exit, sinceRefresh, refreshGap, refreshes, cpus, input,
                    frame, app_result, main_result, restoreCalls,
                    drawsInIter, refreshesInIter, readsInIter >>

\* line 51
Draw2 == pc = "draw2" /\ TerminalDraw("events")

\* lines 53 and 104-114: self.handle_events()?  event::read() blocks until
\* the terminal has an event (or fails).
HandleEvents ==
    /\ pc = "events"
    /\ input # << >>
    /\ LET r == Head(input) IN
        /\ IF r = IoError
           THEN /\ app_result' = "ReadErr"
                /\ pc' = "restore"
                /\ UNCHANGED exit
           ELSE /\ exit' = HandleEvent(r, exit)
                /\ pc' = "while"
                /\ UNCHANGED app_result
    /\ input' = Tail(input)
    /\ readsInIter' = readsInIter + 1
    /\ UNCHANGED << elapsed, sinceRefresh, refreshGap, refreshes, cpus, frame,
                    main_result, restoreCalls, drawsInIter,
                    refreshesInIter, refreshesSinceReset >>

TuiRestoreSkippedOnErr ==
    /\ pc = "restore"
    /\ IF IsErr(app_result)
       THEN /\ main_result' = app_result
            /\ UNCHANGED restoreCalls
       ELSE /\ restoreCalls' = restoreCalls + 1
            /\ \E ok \in BOOLEAN :
                main_result' = IF ok THEN app_result ELSE "RestoreErr"
    /\ pc' = "done"
    /\ UNCHANGED << exit, elapsed, sinceRefresh, refreshGap, refreshes, cpus,
                    input, frame, app_result, drawsInIter,
                    refreshesInIter, readsInIter, refreshesSinceReset >>

\* lines 144-145: tui::restore()?; app_result
TuiRestore ==
    /\ pc = "restore"
    /\ restoreCalls' = restoreCalls + 1
    /\ \E ok \in BOOLEAN :
        main_result' = IF ok THEN app_result ELSE "RestoreErr"
    /\ pc' = "done"
    /\ UNCHANGED << exit, elapsed, sinceRefresh, refreshGap, refreshes, cpus,
                    input, frame, app_result, drawsInIter,
                    refreshesInIter, readsInIter, refreshesSinceReset >>

(* The environment *)

\* the terminal receives an event (or its input fails) for event::read()
Deliver ==
    /\ Len(input) < MaxQueue
    /\ \E r \in ReadResults : input' = Append(input, r)
    /\ UNCHANGED << pc, exit, elapsed, sinceRefresh, refreshGap, refreshes,
                    cpus, frame, app_result, main_result,
                    restoreCalls, drawsInIter, refreshesInIter,
                    readsInIter, refreshesSinceReset >>

\* time passes while event::read() is blocked with nothing to read
Wait ==
    /\ pc = "events"
    /\ input = << >>
    /\ elapsed' = Sat(elapsed + 1, TickInterval)
    /\ sinceRefresh' = Sat(sinceRefresh + 1, MinCpuUpdateInterval)
    /\ UNCHANGED << pc, exit, refreshGap, refreshes, cpus, input, frame,
                    app_result, main_result, restoreCalls, drawsInIter,
                    refreshesInIter, readsInIter, refreshesSinceReset >>

\* the steps of the program itself
Program ==
    \/ MainStart
    \/ TuiInit
    \/ RunEnter
    \/ LoopCheck
    \/ Draw1
    \/ TickCheck
    \/ Draw2
    \/ HandleEvents
    \/ TuiRestore

Next ==
    \/ Program
    \/ Deliver
    \/ Wait

Spec == Init /\ [][Next]_vars

\* The program takes a step whenever it can; the environment owes nothing:
\* no event need ever arrive.
FairSpec == Spec /\ WF_vars(Program)

------------------------------------------------------------------------------
(* render_frame's layout alone, over a wider range of core counts: the     *)
(* system holds n cores and one frame is built from them.                  *)

LayoutInit ==
    /\ pc = "layout"
    /\ exit = FALSE
    /\ elapsed = 0
    /\ sinceRefresh = 0
    /\ refreshGap = 0
    /\ refreshes = 0
    /\ \E n \in 1..MaxLayoutCores, load \in Loads : cpus = Snapshot(n, load)
    /\ input = << >>
    /\ frame = NoFrame
    /\ app_result = "None"
    /\ main_result = "None"
    /\ restoreCalls = 0
    /\ drawsInIter = 0
    /\ refreshesInIter = 0
    /\ readsInIter = 0
    /\ refreshesSinceReset = 0

\* lines 59-85 for the cpus the system holds
LayoutStep ==
    /\ pc = "layout"
    /\ \E size \in Sizes : frame' = RenderFrame(size, cpus, cpus)
    /\ pc' = "laid_out"
    /\ UNCHANGED << exit, elapsed, sinceRefresh, refreshGap, refreshes, cpus,
                    input, app_result, main_result, restoreCalls, drawsInIter,
                    refreshesInIter, readsInIter, refreshesSinceReset >>

LayoutSpec == LayoutInit /\ [][LayoutStep]_vars

------------------------------------------------------------------------------
(* Properties *)

\* the calls the loop makes, counted within the current iteration
calls == << drawsInIter, refreshesInIter, readsInIter >>

\* the step is the event::read() of handle_events returning `r`
Reads(r) ==
    /\ pc = "events"
    /\ input # << >>
    /\ Head(input) = r
    /\ readsInIter' = readsInIter + 1

\* C1: whenever main returns after tui::init succeeded, tui::restore has been
\* called exactly once, and only after App::run returned, whether run
\* returned Ok or Err; restore is never called while the loop runs.
C1_RestoreOnEveryExit ==
    /\ (pc = "done" /\ main_result # "InitErr") => restoreCalls = 1
    /\ restoreCalls = 1 => (pc = "done" /\ app_result # "None")
    /\ restoreCalls <= 1

C1_Witness ==
    pc = "done" /\ app_result = "DrawErr" /\ restoreCalls = 1

\* C2: when handle_events consumes a Press of 'q' the exit flag is true after
\* that step and the loop is at its condition, and the step from the
\* condition with the flag set returns Ok(()) from run with no draw, refresh
\* or read in between; no condition on the elapsed time is involved.
C2_QuitActsAtOnce ==
    [][ /\ Reads(QuitEvent) => (exit' /\ pc' = "while")
        /\ (pc = "while" /\ exit /\ pc' # pc) =>
              (app_result' = "Ok" /\ pc' = "restore" /\ calls' = calls)
      ]_vars

C2_Witness ==
    pc = "restore" /\ exit /\ app_result = "Ok" /\ elapsed < TickInterval

\* C3: a consumed event other than a Press of lowercase 'q' (a Release or
\* Repeat of 'q', a Press of 'Q', a resize, a mouse event) leaves the exit
\* flag false, and the loop then goes on to its next iteration.
C3_OnlyPressQQuits ==
    [][ /\ \A r \in Events \ {QuitEvent} :
              Reads(r) => (exit' = FALSE /\ pc' = "while")
        /\ (pc = "while" /\ ~exit /\ pc' # pc) =>
              (pc' = "draw1" /\ app_result' = "None")
      ]_vars

C3_Witness ==
    pc = "draw1" /\ ~exit /\ frame.built /\ frame.shown /\ input = << >>

\* C4: every frame built by render_frame holds exactly one cpu cell per core
\* of its snapshot, the i-th cell drawn into the i-th column rectangle with
\* the i-th core's name and utilization.
C4_OneCellPerCore ==
    frame.built =>
        LET cells == SelectSeq(frame.widgets, LAMBDA w : w.widget = "cpu")
        IN  /\ Len(cells) = Len(frame.snapshot)
            /\ \A i \in 1..Len(cells) :
                  cells[i] = RenderCpu(frame.snapshot[i], frame.inner_layout[i])

\* C5: the sizes assigned to the N columns sum to the whole width, 100
\* percent, for every core count N >= 1.
C5_ColsSumToWhole ==
    (frame.built /\ Len(frame.snapshot) >= 1) => Sum(frame.cols) = 100

\* C6: in an execution where no input event ever arrives, the loop does not
\* stay blocked waiting for input: from the input wait it always reaches the
\* next draw.
C6_TicksWithoutInput ==
    ([](input = << >>)) => [](pc = "events" => <>(pc = "draw1"))

\* C7: at most one refresh_cpu_all call is made within one loop iteration
\* and between two consecutive resets of last_update.
C7_OneRefreshPerTick ==
    refreshesInIter <= 1 /\ refreshesSinceReset <= 1

\* C8: once terminal.draw or the event read has failed, run has returned
\* (no further draw, refresh or read), and main returns that same error
\* after calling tui::restore, also when tui::restore itself fails.
C8_ErrorsPropagate ==
    /\ IsErr(app_result) => pc \in {"restore", "done"}
    /\ (pc = "done" /\ IsErr(app_result)) =>
          (restoreCalls = 1 /\ main_result = app_result)

\* C9: the layout of every frame has as many column entries (constraints
\* and rectangles) as the system has cores after the refresh made in the
\* same render_frame call.
C9_ColsMatchRefreshedCores ==
    frame.built =>
        /\ Len(frame.cols) = Len(frame.snapshot)
        /\ Len(frame.inner_layout) = Len(frame.snapshot)
        /\ frame.snapshot = cpus

C9_Witness ==
    frame.built /\ frame.shown /\ Len(frame.cols) = MaxCores

\* C10: once the exit flag is true it stays true, and no terminal.draw,
\* refresh_cpu_all or event::read call is made any more.
C10_ExitingIsTerminal ==
    [][ exit => (exit' /\ calls' = calls /\ frame' = frame /\ cpus' = cpus) ]_vars

C10_Witness ==
    exit /\ pc = "done" /\ app_result = "Ok"

\* C11: the tick is the only redraw trigger: an iteration draws a frame and
\* refreshes only when the elapsed time has reached the tick interval, and
\* then once; at a tick test that finds the elapsed time below the interval
\* the iteration has drawn no frame and made no refresh.
C11_DrawOnlyOnTick ==
    /\ (pc = "tick" /\ elapsed < TickInterval) =>
          (drawsInIter = 0 /\ refreshesInIter = 0)
    /\ drawsInIter <= 1

\* C12: any two consecutive cpu refreshes of an execution are at least the
\* minimum cpu update interval apart.
C12_RefreshesPaced ==
    refreshes >= 2 => refreshGap >= MinCpuUpdateInterval

\* C13: every frame shows the data of the refresh made in the render_frame
\* call that built it, which is the latest refresh, and that refresh is never
\* the first refresh of the run.
C13_BaselineNeverRendered ==
    frame.built =>
        /\ frame.refresh >= 2
        /\ frame.refresh = refreshes
        /\ frame.snapshot = cpus

C13_Witness ==
    frame.built /\ frame.shown /\ pc = "tick" /\ drawsInIter = 1
        /\ app_result = "None" /\ frame.refresh >= 2

\* C14: every column of the layout is assigned a non-zero size, for every
\* core count N >= 1, N > 100 included.
C14_NoZeroColumn ==
    frame.built => \A i \in 1..Len(frame.cols) : frame.cols[i] > 0

\* rectangle r lies inside rectangle b
Inside(r, b) ==
    /\ b.x <= r.x /\ r.x + r.width <= b.x + b.width
    /\ b.y <= r.y /\ r.y + r.height <= b.y + b.height

\* rectangles a and b share a cell
Overlaps(a, b) ==
    /\ a.x < b.x + b.width /\ b.x < a.x + a.width
    /\ a.y < b.y + b.height /\ b.y < a.y + a.height

\* C15: every column rectangle of a frame lies inside the body band (the
\* second rectangle of the outer layout) and none overlaps the header
\* rectangle in which the clock is drawn.
C15_ColumnsInsideBody ==
    frame.built =>
        \A i \in 1..Len(frame.inner_layout) :
            /\ Inside(frame.inner_layout[i], frame.outer_layout[2])
            /\ ~Overlaps(frame.inner_layout[i], frame.outer_layout[1])

\* C16: when tui::init fails main returns that error at once: App::run is
\* never entered, no frame is built, no draw, refresh or read call is made
\* and tui::restore is not called.
C16_InitFailureSkipsLoop ==
    main_result = "InitErr" =>
        /\ pc = "done"
        /\ app_result = "None"
        /\ frame = NoFrame
        /\ calls = << 0, 0, 0 >>
        /\ restoreCalls = 0

C16_Witness ==
    pc = "done" /\ main_result = "InitErr" /\ input # << >>

\* the step is a terminal.draw call (render_frame and what it calls)
Draws == pc \in {"draw1", "draw2"} /\ pc' # pc

\* the step is the tick branch of App::run, which sets last_update to now
TickBranch == pc = "tick" /\ pc' = "draw2"

\* C17: the exit flag changes only in the input step that consumes the quit
\* key press; last_update moves only in the tick branch of App::run, where
\* it moves forward by the elapsed time (at least the tick interval); a
\* terminal.draw call leaves the flag and last_update alone (elapsed only
\* grows by the time the call takes), and an input step that does not quit
\* leaves both alone.
C17_RunStateOwners ==
    [][ /\ exit' # exit => Reads(QuitEvent)
        /\ elapsed' < elapsed => TickBranch
        /\ TickBranch => (elapsed >= TickInterval /\ elapsed' = 0 /\ exit' = exit)
        /\ Draws => (exit' = exit /\ elapsed' >= elapsed)
        /\ \A r \in ReadResults \ {QuitEvent} :
              Reads(r) => (exit' = exit /\ elapsed' = elapsed)
      ]_vars

C17_Witness ==
    pc = "draw2" /\ elapsed = 0 /\ ~exit /\ drawsInIter = 1

\* the loop of App::run is running
InLoop == pc \in {"while", "draw1", "tick", "draw2", "events"}

\* C18: in an execution where no draw and no read fails, once the quit key
\* press is the next event of the input while the loop runs, run returns
\* Ok(()); and every event consumed costs one loop iteration: the loop test
\* is reached again only from the read, each iteration has then read exactly
\* one event, and events leave the input nowhere else.
C18_TerminatesOnQuit ==
    /\ ([] ~IsErr(app_result)) =>
          ((InLoop /\ input # << >> /\ Head(input) = QuitEvent)
              ~> (app_result = "Ok"))
    /\ [][ /\ (pc = "events" /\ pc' = "while") =>
                 (readsInIter = 0 /\ readsInIter' = 1 /\ input' = Tail(input))
           /\ (pc' = "while" /\ pc # "while") => pc \in {"run", "events"}
           /\ input' = input \/ pc = "events" \/ Len(input') = Len(input) + 1
         ]_vars

C18_Witness ==
    pc = "restore" /\ app_result = "Ok" /\ readsInIter = 1
        /\ frame.built /\ frame.shown

\* C19: an iteration reads once, after it has drawn: at every read the
\* iteration has made one or two successful draws and no read yet; the tick
\* test comes after exactly one draw and leads to a second draw exactly when
\* the elapsed time has reached the tick interval, so the read follows two
\* draws in that case and one draw otherwise.
C19_DrawBeforeRead ==
    [][ /\ readsInIter' # readsInIter /\ pc = "events" =>
              (readsInIter = 0 /\ drawsInIter \in {1, 2}
                  /\ frame.built /\ frame.shown)
        /\ (pc = "tick" /\ pc' # pc) =>
              /\ drawsInIter = 1
              /\ pc' = IF elapsed >= TickInterval THEN "draw2" ELSE "events"
        /\ (pc = "tick" /\ pc' = "events") => drawsInIter' = 1
        /\ (pc = "draw2" /\ pc' = "events") => drawsInIter' = 2
        /\ pc' = "events" => pc \in {"tick", "draw2", "events"}
      ]_vars

C19_Witness ==
    pc = "while" /\ readsInIter = 1 /\ drawsInIter = 2 /\ ~exit

====
